---- MODULE Spec2Model ----
(***************************************************************************)
(* Model of the numpy command line front end (src/__init__.py): the flag   *)
(* loop of main, the help/version/usage branch, the resolution of the      *)
(* command in the library and in the schema `functions`, the coercion of   *)
(* the tokens, the stdin fallback, the call and the output formatter.      *)
(*                                                                         *)
(* Text is a sequence of one-character strings, so that str.split, rstrip  *)
(* and the coercers are computed the way the code computes them.           *)
(***************************************************************************)
EXTENDS Integers, Sequences, FiniteSets, TLC

\* ------------------------------------------------------------------------
\* exit codes
E_OK == 0
E_NOARGS == 1
E_FAILED == 2
E_NOTFOUND == 3
E_INVALID == 4

\* ------------------------------------------------------------------------
\* bounds of the model
\* number of tokens after the program name in argv
MaxTokens == 4

\* ------------------------------------------------------------------------
\* text primitives (Python str methods)

\* index of the first occurrence of character c in s, 0 when absent
FirstIdx(s, c) ==
    IF \E i \in 1..Len(s) : s[i] = c
    THEN CHOOSE i \in 1..Len(s) : s[i] = c /\ \A j \in 1..(i-1) : s[j] # c
    ELSE 0

\* s.split(c): every occurrence of c separates two pieces
RECURSIVE Split(_, _)
Split(s, c) ==
    LET i == FirstIdx(s, c)
    IN  IF i = 0 THEN <<s>>
        ELSE <<SubSeq(s, 1, i-1)>> \o Split(SubSeq(s, i+1, Len(s)), c)

\* sep.join(parts)
RECURSIVE Join(_, _)
Join(parts, sep) ==
    IF Len(parts) = 0 THEN <<>>
    ELSE IF Len(parts) = 1 THEN parts[1]
    ELSE parts[1] \o sep \o Join(Tail(parts), sep)

\* s.rstrip(c)
RECURSIVE RStrip(_, _)
RStrip(s, c) ==
    IF Len(s) > 0 /\ s[Len(s)] = c THEN RStrip(SubSeq(s, 1, Len(s)-1), c) ELSE s

IsSpace(c) == c \in {" ", "\n"}

\* s.strip()
RECURSIVE Strip(_)
Strip(s) ==
    IF Len(s) > 0 /\ IsSpace(s[1]) THEN Strip(Tail(s))
    ELSE IF Len(s) > 0 /\ IsSpace(s[Len(s)]) THEN Strip(SubSeq(s, 1, Len(s)-1))
    ELSE s

\* s.split(): the pieces between runs of whitespace, none of them empty
SplitWs(s) ==
    LET blank(c) == IF IsSpace(c) THEN " " ELSE c
        t == [i \in 1..Len(s) |-> blank(s[i])]
        nonempty(p) == Len(p) > 0
    IN  SelectSeq(Split(t, " "), nonempty)

Digits == {"0", "1", "2", "3", "4", "5", "6", "7", "8", "9"}

DigitVal(c) ==
    CASE c = "0" -> 0 [] c = "1" -> 1 [] c = "2" -> 2 [] c = "3" -> 3
      [] c = "4" -> 4 [] c = "5" -> 5 [] c = "6" -> 6 [] c = "7" -> 7
      [] c = "8" -> 8 [] c = "9" -> 9

RECURSIVE DigitsVal(_)
DigitsVal(s) ==
    IF Len(s) = 0 THEN 0
    ELSE 10 * DigitsVal(SubSeq(s, 1, Len(s)-1)) + DigitVal(s[Len(s)])

AllDigits(s) == Len(s) > 0 /\ \A i \in 1..Len(s) : s[i] \in Digits

Signed(s) == Len(s) > 0 /\ s[1] \in {"-", "+"}
Unsigned(s) == IF Signed(s) THEN Tail(s) ELSE s
SignOf(s) == IF Len(s) > 0 /\ s[1] = "-" THEN -1 ELSE 1

\* int(s): surrounding whitespace is dropped, one optional sign, digits
PyIntOk(s) == AllDigits(Unsigned(Strip(s)))
PyIntVal(s) == SignOf(Strip(s)) * DigitsVal(Unsigned(Strip(s)))

\* ast.literal_eval(p) of a piece of a matrix literal: a signed integer
\* literal; a leading zero is a syntax error
LiteralOk(p) ==
    LET u == Unsigned(p)
    IN  AllDigits(u) /\ (Len(u) = 1 \/ u[1] # "0")
LiteralVal(p) == SignOf(p) * DigitsVal(Unsigned(p))

\* ------------------------------------------------------------------------
\* coerced values: the coercer that made the value, the text a str value
\* holds, and the numbers a numeric value holds (rows of integers; a bool is
\* 0 or 1)
Value(t, s, n) == [t |-> t, s |-> s, n |-> n]
NoValue == Value("none", <<>>, <<>>)
Coerced(v) == [ok |-> TRUE, val |-> v]
CoercionError == [ok |-> FALSE, val |-> NoValue]

RECURSIVE Flatten(_)
Flatten(ss) == IF Len(ss) = 0 THEN <<>> ELSE ss[1] \o Flatten(Tail(ss))

\* numpy.matrix(text): '[' and ']' are dropped, ';' separates the rows, ','
\* and whitespace separate the literals of a row, every row has the length
\* of the first
MatrixRows(text) ==
    LET keep(c) == c \notin {"[", "]"}
        rows == Split(SelectSeq(text, keep), ";")
        cols(r) == Split(rows[r], ",")
    IN  [r \in 1..Len(rows) |->
            Flatten([k \in 1..Len(cols(r)) |-> SplitWs(cols(r)[k])])]

MatrixLiteralOk(text) ==
    LET rows == MatrixRows(text)
    IN  \A r \in 1..Len(rows) :
            /\ Len(rows[r]) = Len(rows[1])
            /\ \A k \in 1..Len(rows[r]) : LiteralOk(rows[r][k])

MatrixLiteralVal(text) ==
    LET rows == MatrixRows(text)
    IN  [r \in 1..Len(rows) |-> [k \in 1..Len(rows[r]) |-> LiteralVal(rows[r][k])]]

\* matrix(a): the literal without its trailing ';'. When the literal does not
\* parse, a is opened as a URL; urlopen raises ValueError for a text without
\* a scheme, and no text of this model has one.
matrix(a) ==
    IF MatrixLiteralOk(RStrip(a, ";"))
    THEN Coerced(Value("matrix", <<>>, MatrixLiteralVal(RStrip(a, ";"))))
    ELSE CoercionError

\* intlist(s): int of every piece between commas
intlist(s) ==
    LET ps == Split(s, ",")
    IN  IF \A k \in 1..Len(ps) : PyIntOk(ps[k])
        THEN Coerced(Value("intlist", <<>>, <<[k \in 1..Len(ps) |-> PyIntVal(ps[k])]>>))
        ELSE CoercionError

\* boollist(s): bool of every piece between commas; bool of a str is whether
\* it is non-empty
boollist(s) ==
    LET ps == Split(s, ",")
    IN  Coerced(Value("boollist", <<>>,
                      <<[k \in 1..Len(ps) |-> IF Len(ps[k]) > 0 THEN 1 ELSE 0]>>))

\* tuplelist(s): intlist of every piece between commas
tuplelist(s) ==
    LET ps == Split(s, ",")
    IN  IF \A k \in 1..Len(ps) : intlist(ps[k]).ok
        THEN Coerced(Value("tuplelist", <<>>,
                           [k \in 1..Len(ps) |-> intlist(ps[k]).val.n[1]]))
        ELSE CoercionError

\* intlist_args(*s) applied to the list of the remaining tokens
intlist_args(tokens) ==
    IF \A k \in 1..Len(tokens) : PyIntOk(tokens[k])
    THEN Coerced(Value("intlist_args", <<>>,
                       <<[k \in 1..Len(tokens) |-> PyIntVal(tokens[k])]>>))
    ELSE CoercionError

\* the builtins int, str and bool used as coercers
PyInt(s) ==
    IF PyIntOk(s) THEN Coerced(Value("int", <<>>, <<<<PyIntVal(s)>>>>))
    ELSE CoercionError
PyStr(s) == Coerced(Value("str", s, <<>>))
PyBool(s) == Coerced(Value("bool", <<>>, <<<<IF Len(s) > 0 THEN 1 ELSE 0>>>>))

\* atype(text) for a coercer of the schema
Coerce(atype, text) ==
    CASE atype = "matrix" -> matrix(text)
      [] atype = "intlist" -> intlist(text)
      [] atype = "boollist" -> boollist(text)
      [] atype = "tuplelist" -> tuplelist(text)
      [] atype = "int" -> PyInt(text)
      [] atype = "str" -> PyStr(text)
      [] atype = "bool" -> PyBool(text)

\* ------------------------------------------------------------------------
\* the texts of the model
Prog == <<"n", "u", "m", "p", "y">>
T_w == <<"-", "w">>
T_warning == <<"-", "-", "w", "a", "r", "n", "i", "n", "g">>
T_q == <<"-", "q">>
T_quiet == <<"-", "-", "q", "u", "i", "e", "t">>
T_d == <<"-", "d">>
T_debug == <<"-", "-", "d", "e", "b", "u", "g">>
T_e == <<"-", "e">>
T_exception == <<"-", "-", "e", "x", "c", "e", "p", "t", "i", "o", "n">>
T_f == <<"-", "f">>
T_flatten == <<"-", "-", "f", "l", "a", "t", "t", "e", "n">>
T_h == <<"-", "h">>
T_helpopt == <<"-", "-", "h", "e", "l", "p">>
T_v == <<"-", "v">>
T_versionopt == <<"-", "-", "v", "e", "r", "s", "i", "o", "n">>
T_makedocs == <<"-", "-", "m", "a", "k", "e", "d", "o", "c", "s">>
T_x == <<"-", "x">>
T_help == <<"h", "e", "l", "p">>
T_version == <<"v", "e", "r", "s", "i", "o", "n">>
T_add == <<"a", "d", "d">>
T_savetxt == <<"s", "a", "v", "e", "t", "x", "t">>
T_trace == <<"t", "r", "a", "c", "e">>
T_random_rand == <<"r", "a", "n", "d", "o", "m", ".", "r", "a", "n", "d">>
T_mean == <<"m", "e", "a", "n">>
T_nosuch == <<"n", "o", "s", "u", "c", "h">>
T_2 == <<"2">>
T_fmt_a_b == <<"f", "m", "t", "=", "a", "=", "b">>
T_axis_1 == <<"a", "x", "i", "s", "=", "1">>
K_where == <<"w", "h", "e", "r", "e">>
K_axes == <<"a", "x", "e", "s">>
K_axis == <<"a", "x", "i", "s">>
K_keepdims == <<"k", "e", "e", "p", "d", "i", "m", "s">>
K_casting == <<"c", "a", "s", "t", "i", "n", "g">>
K_order == <<"o", "r", "d", "e", "r">>
K_dtype == <<"d", "t", "y", "p", "e">>
K_subok == <<"s", "u", "b", "o", "k">>
K_fmt == <<"f", "m", "t">>
K_delimiter == <<"d", "e", "l", "i", "m", "i", "t", "e", "r">>
K_newline == <<"n", "e", "w", "l", "i", "n", "e">>
K_header == <<"h", "e", "a", "d", "e", "r">>
K_footer == <<"f", "o", "o", "t", "e", "r">>
K_comments == <<"c", "o", "m", "m", "e", "n", "t", "s">>
K_encoding == <<"e", "n", "c", "o", "d", "i", "n", "g">>
K_offset == <<"o", "f", "f", "s", "e", "t">>
N_random == <<"r", "a", "n", "d", "o", "m">>
N_rand == <<"r", "a", "n", "d">>
DefaultPattern == <<".", "*">>
T_empty == <<>>

\* ------------------------------------------------------------------------
\* the schema (a fragment of `functions`: two-slot, mixed-slot, one-slot and
\* variadic commands, with and without universal keywords)

\* the keys of a schema entry that are not keyword names
POSITIONAL == <<>>
UARGS == <<"*", "*">>

\* a value of a schema entry is a coercer (a callable) or a list
Callable(name) == [kind |-> "callable", name |-> name, items |-> <<>>]
List(items) == [kind |-> "list", name |-> "", items |-> items]

VARARGS == {"intlist_args"}

UFUNC ==
    (K_where :> "boollist") @@ (K_axes :> "tuplelist") @@ (K_axis :> "intlist")
    @@ (K_keepdims :> "bool") @@ (K_casting :> "str") @@ (K_order :> "str")
    @@ (K_dtype :> "str") @@ (K_subok :> "bool")

UKEYS == <<K_where, K_axes, K_axis, K_keepdims, K_casting, K_order, K_dtype, K_subok>>

functions ==
    (T_add :>
        ((POSITIONAL :> List(<<"matrix", "matrix">>)) @@ (UARGS :> List(UKEYS))))
    @@ (T_savetxt :>
        ((POSITIONAL :> List(<<"str", "matrix">>))
         @@ (K_fmt :> Callable("str")) @@ (K_delimiter :> Callable("str"))
         @@ (K_newline :> Callable("str")) @@ (K_header :> Callable("str"))
         @@ (K_footer :> Callable("str")) @@ (K_comments :> Callable("str"))
         @@ (K_encoding :> Callable("str"))))
    @@ (T_trace :>
        ((POSITIONAL :> List(<<"matrix">>))
         @@ (K_offset :> Callable("int")) @@ (K_axis :> Callable("int"))
         @@ (K_dtype :> Callable("str"))))
    @@ (T_random_rand :> (POSITIONAL :> Callable("intlist_args")))

\* ------------------------------------------------------------------------
\* the library (a fragment of the attributes of numpy and numpy.random)

LibNamespaces(lib) == IF lib = "numpy" THEN {N_random} ELSE {}
LibCallables(lib) ==
    IF lib = "numpy" THEN {T_add, T_savetxt, T_trace, T_mean}
    ELSE IF lib = "numpy.random" THEN {N_rand}
    ELSE {}

\* getattr(lib, name): the attribute, or "" for AttributeError
GetAttr(lib, name) ==
    IF name \in LibNamespaces(lib) THEN "numpy.random"
    ELSE IF name \in LibCallables(lib) THEN "callable"
    ELSE ""

RECURSIVE Walk(_, _)
Walk(lib, package) ==
    IF Len(package) = 0 THEN lib
    ELSE IF GetAttr(lib, package[1]) = "" THEN ""
    ELSE Walk(GetAttr(lib, package[1]), Tail(package))

\* whether the attribute walk over command.split('.') from numpy succeeds
Resolves(command) == Walk("numpy", Split(command, ".")) # ""

\* ------------------------------------------------------------------------
\* help

HelpNone == [given |-> FALSE, name |-> <<>>]
HelpName(name) == [given |-> TRUE, name |-> name]

IsInfix(p, s) ==
    \E i \in 0..(Len(s) - Len(p)) : SubSeq(s, i+1, i+Len(p)) = p

\* re.search(pattern, s); the patterns of the model other than '.*' hold no
\* metacharacter of a regular expression
ReSearch(pattern, s) == pattern = DefaultPattern \/ IsInfix(pattern, s)

\* help(name): whether it raises, whether it redirected sys.stderr, whether it
\* handed the documentation of the command to output(), and what it printed to
\* standard output
Help(h) ==
    IF h.given /\ h.name \in DOMAIN functions
    THEN LET specs == functions[h.name]
             noname == \E tag \in DOMAIN specs \ {POSITIONAL} : specs[tag].kind = "list"
         IN  IF ~Resolves(h.name) \/ noname
             THEN [raised |-> TRUE, redirect |-> TRUE, doc |-> FALSE, out |-> <<>>]
             ELSE [raised |-> FALSE, redirect |-> TRUE, doc |-> TRUE,
                   out |-> <<<<"usage of">> \o h.name, <<"doc">>>>]
    ELSE [raised |-> FALSE, redirect |-> FALSE, doc |-> FALSE,
          out |-> IF ~h.given THEN <<<<"Syntax">>>>
                  ELSE <<<<"Syntax">>, <<"Options">>, <<"Commands">>>>
                       \o SelectSeq(<<T_add, T_random_rand, T_savetxt, T_trace>>,
                                    LAMBDA f : ReSearch(h.name, f))]

\* ------------------------------------------------------------------------
\* the output formatter

\* what the library call can return
RNone == [kind |-> "None", items |-> <<>>]
RStr == [kind |-> "str", items |-> <<>>]
\* a list numpy.savetxt writes, and one it raises on
RList == [kind |-> "list", items |-> <<>>]
RBadList == [kind |-> "badlist", items |-> <<>>]
\* another value numpy.matrix converts, and one it raises on
ROther == [kind |-> "other", items |-> <<>>]
RBadOther == [kind |-> "badother", items |-> <<>>]
RTuple(items) == [kind |-> "tuple", items |-> items]

Written(out, err, raised) == [out |-> out, err |-> err, raised |-> raised]

RECURSIVE OutputItems(_, _)
RECURSIVE Output(_, _)
\* output(result) under configuration cfg: the writes to standard output and
\* to standard error, and whether it raises
Output(r, cfg) ==
    CASE r.kind = "None" -> Written(<<>>, <<>>, FALSE)
      [] r.kind = "tuple" -> OutputItems(r.items, cfg)
      [] r.kind = "list" -> Written(<<<<"savetxt", cfg.newline>>>>, <<>>, FALSE)
      [] r.kind = "badlist" -> Written(<<>>, <<>>, TRUE)
      [] r.kind = "str" -> Written(<<<<"print">>>>, <<>>, FALSE)
      [] r.kind = "other" -> Output(RList, cfg)
      [] r.kind = "badother" -> Written(<<>>, <<<<"output failed">>>>, FALSE)

\* for item in result: output(item)
OutputItems(items, cfg) ==
    IF Len(items) = 0 THEN Written(<<>>, <<>>, FALSE)
    ELSE LET first == Output(items[1], cfg)
             rest == OutputItems(Tail(items), cfg)
         IN  IF first.raised THEN first
             ELSE Written(first.out \o rest.out, first.err \o rest.err, rest.raised)

\* ------------------------------------------------------------------------
\* the state of one run of main

VARIABLES
    argv,        \* the list main was given
    sysargv,     \* sys.argv
    aliased,     \* whether argv is the list object sys.argv
    argv0,       \* the list main was given, as it was on entry
    config,      \* class config
    pc,          \* where main is: "flags", "branch", "bind", "tokens", "stdin",
                 \* "call", "output", "done"
    outcome,     \* "running", "exit" (SystemExit) or "raised" (an exception
                 \* left main)
    exitcode,    \* the code given to exit
    args,        \* the coerced positional arguments
    kwargs,      \* the coerced keyword arguments
    pos,         \* the positional counter
    tokIdx,      \* the index in argv[2:] of the token the loop is at
    stdinTty,    \* what sys.stdin.isatty() answers: "unknown" until asked
    stdinReads,  \* the texts sys.stdin.readlines() returned, joined
    stdout,      \* what was written to standard output
    stderr,      \* what was written to standard error
    redirected,  \* whether sys.stderr was set to sys.stdout
    errors,      \* the codes error() was called with
    calls,       \* the arguments of every invocation of the library callable
    result,      \* what the library callable returned
    formatted    \* the values output() was called with, in order

vars == <<argv, sysargv, aliased, argv0, config, pc, outcome, exitcode, args,
          kwargs, pos, tokIdx, stdinTty, stdinReads, stdout, stderr, redirected,
          errors, calls, result, formatted>>

argVars == <<argv, sysargv, aliased, argv0>>
bindVars == <<args, kwargs, pos, tokIdx>>
stdinVars == <<stdinTty, stdinReads>>
callVars == <<calls, result, formatted>>

\* ------------------------------------------------------------------------
\* the inputs of the model

FlagTokens == {T_w, T_q, T_d, T_e, T_f}
CommandTokens ==
    {T_add, T_savetxt, T_trace, T_random_rand, T_mean, T_nosuch, T_help,
     T_version, T_h, T_v, T_makedocs, T_x, T_empty}
ArgTokens == {T_2, T_fmt_a_b, T_axis_1, T_add, T_trace, T_nosuch, T_q}

\* argument lists: leading flags, then nothing or a token in command position
\* and the tokens after it, MaxTokens tokens at most
IsArgList(list) ==
    \E nf \in 0..MaxTokens : \E f \in [1..nf -> FlagTokens] :
        \/ list = <<Prog>> \o f
        \/ /\ nf < MaxTokens
           /\ \E c \in CommandTokens : \E na \in 0..(MaxTokens - 1 - nf) :
                 \E a \in [1..na -> ArgTokens] : list = <<Prog>> \o f \o <<c>> \o a

\* sys.argv of a process that is not this program
T_runner == <<"r", "u", "n">>
ForeignSysArgv == {<<T_runner>>, <<T_runner, T_help>>, <<T_runner, T_runner>>}

\* the lines standard input holds when it is piped
StdinContents ==
    {<<<<"1", ",", "2", "\n">>, <<"3", ",", "4", "\n">>>>,
     <<<<"x", "\n">>>>,
     <<>>}

\* what the library call returns
Results ==
    {RNone, RStr, RList, RBadList, ROther, RBadOther,
     RTuple(<<ROther, ROther>>), RTuple(<<ROther, RBadOther>>),
     RTuple(<<RBadList, ROther>>)}

\* class config
DefaultConfig ==
    [warning |-> TRUE, quiet |-> FALSE, debug |-> FALSE, exception |-> FALSE,
     newline |-> "\n", format |-> "%.8g"]

Fresh ==
    /\ argv0 = argv
    /\ config = DefaultConfig
    /\ pc = "flags"
    /\ outcome = "running"
    /\ exitcode = E_OK
    /\ args = <<>>
    /\ kwargs = <<>>
    /\ pos = 0
    /\ tokIdx = 1
    /\ stdinTty = "unknown"
    /\ stdinReads = <<>>
    /\ stdout = <<>>
    /\ stderr = <<>>
    /\ redirected = FALSE
    /\ errors = <<>>
    /\ calls = <<>>
    /\ result = RNone
    /\ formatted = <<>>

\* main(sys.argv)
EntryMain ==
    /\ IsArgList(argv)
    /\ sysargv = argv
    /\ aliased = TRUE
    /\ Fresh

\* main(options) called by another program with its own sys.argv
EntryForwarded ==
    /\ IsArgList(argv)
    /\ sysargv \in ForeignSysArgv
    /\ aliased = FALSE
    /\ Fresh

Init == EntryMain \/ EntryForwarded

\* ------------------------------------------------------------------------
\* leaving main

\* exit(code)
Exit(code) == outcome' = "exit" /\ exitcode' = code

\* an exception leaves main
Raise == outcome' = "raised" /\ UNCHANGED exitcode

\* print(..., file=sys.stderr)
PrintErr(lines) ==
    IF redirected
    THEN stdout' = stdout \o lines /\ UNCHANGED stderr
    ELSE stderr' = stderr \o lines /\ UNCHANGED stdout

\* error(msg, code) with a code
Error(code) ==
    /\ errors' = Append(errors, code)
    /\ IF config.quiet THEN UNCHANGED <<stdout, stderr>> ELSE PrintErr(<<<<"ERROR">>>>)
    /\ IF config.exception THEN Raise ELSE Exit(code)

\* the handler of an exception raised inside the try block of the dispatch
Failed ==
    IF config.exception
    THEN Raise /\ UNCHANGED <<errors, stdout, stderr>>
    ELSE Error(E_FAILED)

\* ------------------------------------------------------------------------
\* the flag loop: while not done and len(argv) > 1

InFlags == pc = "flags" /\ outcome = "running" /\ Len(argv) > 1

\* del argv[1]
DelArg1 ==
    /\ argv' = <<argv[1]>> \o SubSeq(argv, 3, Len(argv))
    /\ sysargv' = IF aliased THEN argv' ELSE sysargv
    /\ UNCHANGED <<aliased, argv0>>

\* argv[1] = t
SetArg1(t) ==
    /\ argv' = [argv EXCEPT ![2] = t]
    /\ sysargv' = IF aliased THEN argv' ELSE sysargv
    /\ UNCHANGED <<aliased, argv0>>

Toggles == {T_w, T_warning, T_q, T_quiet, T_d, T_debug, T_e, T_exception,
            T_f, T_flatten}
Rewrites == {T_h, T_helpopt, T_v, T_versionopt}

FlagWarning ==
    /\ InFlags
    /\ argv[2] \in {T_w, T_warning}
    /\ config' = [config EXCEPT !.warning = ~config.warning]
    /\ DelArg1
    /\ UNCHANGED <<pc, outcome, exitcode, bindVars, stdinVars, stdout, stderr,
                   redirected, errors, callVars>>

FlagQuiet ==
    /\ InFlags
    /\ argv[2] \in {T_q, T_quiet}
    /\ config' = [config EXCEPT !.quiet = ~config.quiet]
    /\ DelArg1
    /\ UNCHANGED <<pc, outcome, exitcode, bindVars, stdinVars, stdout, stderr,
                   redirected, errors, callVars>>

FlagDebug ==
    /\ InFlags
    /\ argv[2] \in {T_d, T_debug}
    /\ config' = [config EXCEPT !.debug = ~config.debug]
    /\ DelArg1
    /\ UNCHANGED <<pc, outcome, exitcode, bindVars, stdinVars, stdout, stderr,
                   redirected, errors, callVars>>

FlagException ==
    /\ InFlags
    /\ argv[2] \in {T_e, T_exception}
    /\ config' = [config EXCEPT !.exception = ~config.exception]
    /\ DelArg1
    /\ UNCHANGED <<pc, outcome, exitcode, bindVars, stdinVars, stdout, stderr,
                   redirected, errors, callVars>>

FlagFlattenToggles ==
    /\ InFlags
    /\ argv[2] \in {T_f, T_flatten}
    /\ config' = [config EXCEPT !.newline = IF config.newline = ";" THEN "\n" ELSE ";"]
    /\ DelArg1
    /\ UNCHANGED <<pc, outcome, exitcode, bindVars, stdinVars, stdout, stderr,
                   redirected, errors, callVars>>

FlagFlatten ==
    /\ InFlags
    /\ argv[2] \in {T_f, T_flatten}
    /\ config' = [config EXCEPT !.newline = ";"]
    /\ DelArg1
    /\ UNCHANGED <<pc, outcome, exitcode, bindVars, stdinVars, stdout, stderr,
                   redirected, errors, callVars>>

FlagHelp ==
    /\ InFlags
    /\ argv[2] \in {T_h, T_helpopt}
    /\ SetArg1(T_help)
    /\ UNCHANGED <<config, pc, outcome, exitcode, bindVars, stdinVars, stdout,
                   stderr, redirected, errors, callVars>>

FlagVersion ==
    /\ InFlags
    /\ argv[2] \in {T_v, T_versionopt}
    /\ SetArg1(T_version)
    /\ UNCHANGED <<config, pc, outcome, exitcode, bindVars, stdinVars, stdout,
                   stderr, redirected, errors, callVars>>

\* makedocs() opens a file for every command of the schema and looks every
\* command up in the library: it raises when a lookup or a write fails
FlagMakedocs ==
    /\ InFlags
    /\ argv[2] = T_makedocs
    /\ \E written \in BOOLEAN :
          IF written /\ \A f \in DOMAIN functions : Resolves(f)
          THEN Exit(E_OK)
          ELSE Raise
    /\ UNCHANGED <<argVars, config, pc, bindVars, stdinVars, stdout, stderr,
                   redirected, errors, callVars>>

\* argv[1][0] raises IndexError on the empty token
FlagEmpty ==
    /\ InFlags
    /\ argv[2] \notin Toggles \cup Rewrites \cup {T_makedocs}
    /\ Len(argv[2]) = 0
    /\ Raise
    /\ UNCHANGED <<argVars, config, pc, bindVars, stdinVars, stdout, stderr,
                   redirected, errors, callVars>>

FlagInvalid ==
    /\ InFlags
    /\ argv[2] \notin Toggles \cup Rewrites \cup {T_makedocs}
    /\ Len(argv[2]) > 0
    /\ argv[2][1] = "-"
    /\ Error(E_INVALID)
    /\ UNCHANGED <<argVars, config, pc, bindVars, stdinVars, redirected, callVars>>

\* else: done = True, and the loop ends
FlagDone ==
    /\ InFlags
    /\ argv[2] \notin Toggles \cup Rewrites \cup {T_makedocs}
    /\ Len(argv[2]) > 0
    /\ argv[2][1] # "-"
    /\ pc' = "branch"
    /\ UNCHANGED <<argVars, config, outcome, exitcode, bindVars, stdinVars, stdout,
                   stderr, redirected, errors, callVars>>

\* the loop ends because len(argv) <= 1
FlagsExhausted ==
    /\ pc = "flags"
    /\ outcome = "running"
    /\ Len(argv) <= 1
    /\ pc' = "branch"
    /\ UNCHANGED <<argVars, config, outcome, exitcode, bindVars, stdinVars, stdout,
                   stderr, redirected, errors, callVars>>

\* ------------------------------------------------------------------------
\* usage, help and version

InBranch == pc = "branch" /\ outcome = "running"

\* help(h), then exit(code) when help returns
HelpThenExit(h, code) ==
    /\ stdout' = stdout \o Help(h).out
    /\ redirected' = (redirected \/ Help(h).redirect)
    /\ formatted' = IF Help(h).doc THEN Append(formatted, RStr) ELSE formatted
    /\ IF Help(h).raised THEN Raise ELSE Exit(code)

\* len(sys.argv) < 2
Usage ==
    /\ InBranch
    /\ Len(sysargv) < 2
    /\ HelpThenExit(HelpNone, E_NOARGS)
    /\ UNCHANGED <<argVars, config, pc, bindVars, stdinVars, stderr, errors, calls,
                   result>>

HelpAll ==
    /\ InBranch
    /\ Len(sysargv) >= 2
    /\ sysargv[2] = T_help
    /\ Len(sysargv) = 2
    /\ HelpThenExit(HelpName(DefaultPattern), E_OK)
    /\ UNCHANGED <<argVars, config, pc, bindVars, stdinVars, stderr, errors, calls,
                   result>>

HelpOne ==
    /\ InBranch
    /\ Len(sysargv) >= 2
    /\ sysargv[2] = T_help
    /\ Len(sysargv) # 2
    /\ Len(argv) = 3 /\ argv[2] = T_help
    /\ HelpThenExit(HelpName(argv[3]), E_OK)
    /\ UNCHANGED <<argVars, config, pc, bindVars, stdinVars, stderr, errors, calls,
                   result>>

HelpTooMany ==
    /\ InBranch
    /\ Len(sysargv) >= 2
    /\ sysargv[2] = T_help
    /\ Len(sysargv) # 2
    /\ ~(Len(argv) = 3 /\ argv[2] = T_help)
    /\ Error(E_INVALID)
    /\ UNCHANGED <<argVars, config, pc, bindVars, stdinVars, redirected, callVars>>

\* elif argv[1] == "version"; the test raises IndexError when argv holds the
\* program name alone
Version ==
    /\ InBranch
    /\ Len(sysargv) >= 2
    /\ sysargv[2] # T_help
    /\ IF Len(argv) < 2 THEN TRUE ELSE argv[2] = T_version
    /\ IF Len(argv) < 2
       THEN Raise /\ UNCHANGED stdout
       ELSE stdout' = Append(stdout, <<"version">>) /\ Exit(E_OK)
    /\ UNCHANGED <<argVars, config, pc, bindVars, stdinVars, stderr, redirected,
                   errors, callVars>>

\* ------------------------------------------------------------------------
\* the dispatch

\* the first try block: the command is looked up in the library
Resolve ==
    /\ InBranch
    /\ Len(sysargv) >= 2
    /\ sysargv[2] # T_help
    /\ Len(argv) >= 2 /\ argv[2] # T_version
    /\ IF Resolves(argv[2])
       THEN pc' = "bind" /\ UNCHANGED <<outcome, exitcode, stdout, stderr, errors>>
       ELSE /\ UNCHANGED pc
            /\ IF config.exception
               THEN Raise /\ UNCHANGED <<stdout, stderr, errors>>
               ELSE Error(E_NOTFOUND)
    /\ UNCHANGED <<argVars, config, bindVars, stdinVars, redirected, callVars>>

\* the schema entry of the command, the coercers of its positional slots and the
\* tokens after the command
Function == functions[argv[2]]
Positionals == Function[POSITIONAL].items
Rest == SubSeq(argv, 3, Len(argv))

InBind == pc = "bind" /\ outcome = "running"

\* function = functions[name] raises KeyError
BindUnknown ==
    /\ InBind
    /\ argv[2] \notin DOMAIN functions
    /\ Failed
    /\ UNCHANGED <<argVars, config, pc, bindVars, stdinVars, redirected, callVars>>

\* function[POSITIONAL] in VARARGS: one coercer takes all the tokens
BindVariadic ==
    /\ InBind
    /\ argv[2] \in DOMAIN functions
    /\ Function[POSITIONAL].kind = "callable"
    /\ Function[POSITIONAL].name \in VARARGS
    /\ LET c == intlist_args(Rest)
       IN  IF Len(argv) > 2 /\ ~c.ok
           THEN Failed /\ UNCHANGED <<pc, args>>
           ELSE /\ args' = IF Len(argv) > 2
                           THEN [k \in 1..Len(Rest) |->
                                    Value("int", <<>>, <<<<c.val.n[1][k]>>>>)]
                           ELSE <<>>
                /\ pc' = "call"
                /\ UNCHANGED <<outcome, exitcode, stdout, stderr, errors>>
    /\ UNCHANGED <<argVars, config, kwargs, pos, tokIdx, stdinVars, redirected,
                   callVars>>

BindFixed ==
    /\ InBind
    /\ argv[2] \in DOMAIN functions
    /\ ~(Function[POSITIONAL].kind = "callable" /\ Function[POSITIONAL].name \in VARARGS)
    /\ pc' = "tokens"
    /\ UNCHANGED <<argVars, config, outcome, exitcode, bindVars, stdinVars, stdout,
                   stderr, redirected, errors, callVars>>

\* for arg in argv[2:]
InTokens == pc = "tokens" /\ outcome = "running" /\ tokIdx <= Len(Rest)

\* spec = arg.split("=")
SpecOf(arg) == Split(arg, "=")

\* the slot of function[POSITIONAL][pos] (1-based)
PositionalSlotByToken == IF tokIdx <= Len(Positionals) THEN tokIdx ELSE Len(Positionals)
PositionalSlot == pos + 1

\* len(spec) < 2: the token is positional
TokenPositional ==
    /\ InTokens
    /\ Len(SpecOf(Rest[tokIdx])) < 2
    /\ IF pos >= Len(Positionals)
       THEN Error(E_INVALID) /\ UNCHANGED bindVars
       ELSE LET c == Coerce(Positionals[PositionalSlot], Rest[tokIdx])
            IN  IF c.ok
                THEN /\ args' = Append(args, c.val)
                     /\ pos' = pos + 1
                     /\ tokIdx' = tokIdx + 1
                     /\ UNCHANGED <<kwargs, outcome, exitcode, stdout, stderr, errors>>
                ELSE Failed /\ UNCHANGED bindVars
    /\ UNCHANGED <<argVars, config, pc, stdinVars, redirected, callVars>>

\* the coercer function[key] applied to text: KeyError when the entry has no
\* such key, TypeError when the value under the key is a list
Keyword(function, key, text) ==
    IF key \notin DOMAIN function THEN CoercionError
    ELSE IF function[key].kind # "callable" THEN CoercionError
    ELSE Coerce(function[key].name, text)

\* the key and the text of a keyword token
KeyOf(arg) == SpecOf(arg)[1]
TextOf(arg) == SpecOf(arg)[2]

\* else: atype = function[spec[0]]; kwargs[spec[0]] = atype(spec[1])
TokenKeyword ==
    /\ InTokens
    /\ Len(SpecOf(Rest[tokIdx])) >= 2
    /\ LET key == KeyOf(Rest[tokIdx])
           c == Keyword(Function, key, TextOf(Rest[tokIdx]))
       IN  IF c.ok
           THEN /\ kwargs' = [k \in DOMAIN kwargs \cup {key} |->
                                 IF k = key THEN c.val ELSE kwargs[k]]
                /\ tokIdx' = tokIdx + 1
                /\ UNCHANGED <<args, pos, outcome, exitcode, stdout, stderr, errors>>
           ELSE Failed /\ UNCHANGED bindVars
    /\ UNCHANGED <<argVars, config, pc, stdinVars, redirected, callVars>>

TokensDone ==
    /\ pc = "tokens" /\ outcome = "running"
    /\ tokIdx > Len(Rest)
    /\ pc' = "stdin"
    /\ UNCHANGED <<argVars, config, outcome, exitcode, bindVars, stdinVars, stdout,
                   stderr, redirected, errors, callVars>>

\* while len(args) < len(function[POSITIONAL])
InStdin == pc = "stdin" /\ outcome = "running" /\ Len(args) < Len(Positionals)

\* sys.stdin.isatty() is true
StdinTty ==
    /\ InStdin
    /\ stdinTty \in {"unknown", "tty"}
    /\ stdinTty' = "tty"
    /\ Error(E_INVALID)
    /\ UNCHANGED <<argVars, config, pc, bindVars, stdinReads, redirected, callVars>>

\* the slot standard input fills: function[POSITIONAL][pos] (1-based)
StdinSlotLast == Len(Positionals)
StdinSlot == pos + 1

\* data = sys.stdin.readlines(); args.append(atype(";".join(data)))
StdinRead ==
    /\ InStdin
    /\ stdinTty \in {"unknown", "pipe"}
    /\ stdinTty' = "pipe"
    /\ \E data \in (IF stdinReads = <<>> THEN StdinContents ELSE {<<>>}) :
          LET text == Join(data, <<";">>)
              c == Coerce(Positionals[StdinSlot], text)
          IN  /\ stdinReads' = Append(stdinReads, text)
              /\ IF c.ok
                 THEN /\ args' = Append(args, c.val)
                      /\ pos' = pos + 1
                      /\ UNCHANGED <<kwargs, tokIdx, outcome, exitcode, stdout,
                                     stderr, errors>>
                 ELSE Failed /\ UNCHANGED bindVars
    /\ UNCHANGED <<argVars, config, pc, redirected, callVars>>

\* the loop left without the test of len(args)
StdinSkipped ==
    /\ pc = "stdin" /\ outcome = "running"
    /\ pc' = "call"
    /\ UNCHANGED <<argVars, config, outcome, exitcode, bindVars, stdinVars, stdout,
                   stderr, redirected, errors, callVars>>

StdinDone ==
    /\ pc = "stdin" /\ outcome = "running"
    /\ Len(args) >= Len(Positionals)
    /\ pc' = "call"
    /\ UNCHANGED <<argVars, config, outcome, exitcode, bindVars, stdinVars, stdout,
                   stderr, redirected, errors, callVars>>

\* result = call(*args, **kwargs), which raises
CallRaises ==
    /\ pc = "call" /\ outcome = "running"
    /\ calls' = Append(calls, [args |-> args, kwargs |-> kwargs])
    /\ Failed
    /\ UNCHANGED <<argVars, config, pc, bindVars, stdinVars, redirected, result,
                   formatted>>

\* result = call(*args, **kwargs), which returns
CallReturns ==
    /\ pc = "call" /\ outcome = "running"
    /\ calls' = Append(calls, [args |-> args, kwargs |-> kwargs])
    /\ \E r \in Results : result' = r
    /\ pc' = "output"
    /\ UNCHANGED <<argVars, config, outcome, exitcode, bindVars, stdinVars, stdout,
                   stderr, redirected, errors, formatted>>

\* output(result), then exit(E_OK); an exception of output is handled as any
\* other of the try block
OutputResult ==
    /\ pc = "output" /\ outcome = "running"
    /\ LET w == Output(result, config)
       IN  /\ stdout' = stdout \o w.out
           /\ formatted' = Append(formatted, result)
           /\ IF ~w.raised
              THEN /\ stderr' = stderr \o w.err
                   /\ pc' = "done"
                   /\ Exit(E_OK)
                   /\ UNCHANGED errors
              ELSE IF config.exception
              THEN /\ stderr' = stderr \o w.err
                   /\ Raise
                   /\ UNCHANGED <<pc, errors>>
              ELSE /\ stderr' = stderr \o w.err
                              \o (IF config.quiet THEN <<>> ELSE <<<<"ERROR">>>>)
                   /\ errors' = Append(errors, E_FAILED)
                   /\ Exit(E_FAILED)
                   /\ UNCHANGED pc
    /\ UNCHANGED <<argVars, config, bindVars, stdinVars, redirected, calls, result>>

\* ------------------------------------------------------------------------
Next ==
    \/ FlagWarning \/ FlagQuiet \/ FlagDebug \/ FlagException \/ FlagFlatten
    \/ FlagHelp \/ FlagVersion \/ FlagMakedocs \/ FlagEmpty \/ FlagInvalid
    \/ FlagDone \/ FlagsExhausted
    \/ Usage \/ HelpAll \/ HelpOne \/ HelpTooMany \/ Version
    \/ Resolve \/ BindUnknown \/ BindVariadic \/ BindFixed
    \/ TokenPositional \/ TokenKeyword \/ TokensDone
    \/ StdinTty \/ StdinRead \/ StdinDone
    \/ CallRaises \/ CallReturns \/ OutputResult

Spec == Init /\ [][Next]_vars

\* ------------------------------------------------------------------------
\* vocabulary of the properties

\* the token holds '=', the text before its first '=' and the text after it
HasEq(tok) == FirstIdx(tok, "=") > 0
NameOf(tok) == SubSeq(tok, 1, FirstIdx(tok, "=") - 1)
AfterFirstEq(tok) == SubSeq(tok, FirstIdx(tok, "=") + 1, Len(tok))

\* the keywords a schema entry declares and its universal keyword set
Declared(function) == DOMAIN function \ {POSITIONAL, UARGS}
Universal(function) ==
    IF UARGS \in DOMAIN function
    THEN {function[UARGS].items[i] : i \in 1..Len(function[UARGS].items)}
    ELSE {}

\* main is dispatching a fixed-arity command of the schema that the library has
FixedDispatch ==
    /\ pc \in {"tokens", "stdin", "call", "output", "done"}
    /\ argv[2] \in DOMAIN functions
    /\ Function[POSITIONAL].kind = "list"

\* the tokens without '=' among the first n tokens after the command
PlainAmong(n) == {j \in 1..n : ~HasEq(Rest[j])}
\* the k-th token without '='
PlainToken(k) ==
    Rest[CHOOSE j \in 1..Len(Rest) :
            ~HasEq(Rest[j]) /\ Cardinality(PlainAmong(j)) = k]

\* the token's name is neither declared for the command nor universal for it
UnknownKeyword(tok) ==
    HasEq(tok) /\ NameOf(tok) \notin Declared(Function) \cup Universal(Function)

\* C1: a token name=value whose name the command neither declares nor has in
\* its universal set makes main (raise mode off) exit with E_INVALID, and the
\* library callable is never invoked
C1_UnknownKeywordIsInvalid ==
    FixedDispatch =>
        /\ \A i \in 1..Len(Rest) :
              UnknownKeyword(Rest[i]) => (calls = <<>> /\ tokIdx <= i)
        /\ ( /\ pc = "tokens" /\ tokIdx <= Len(Rest)
             /\ UnknownKeyword(Rest[tokIdx])
             /\ outcome # "running" /\ ~config.exception )
           => (outcome = "exit" /\ exitcode = E_INVALID)

\* C2: a token k=v with k in the universal keyword set of the command is
\* accepted: main does not fail at it, and v coerced with UFUNC[k] is the
\* keyword argument k
C2_UniversalKeywordAccepted ==
    FixedDispatch =>
        \A i \in 1..Len(Rest) :
            ( /\ HasEq(Rest[i])
              /\ NameOf(Rest[i]) \in Universal(Function)
              /\ Coerce(UFUNC[NameOf(Rest[i])], AfterFirstEq(Rest[i])).ok )
            => /\ (i = tokIdx => outcome = "running")
               /\ (i < tokIdx =>
                     /\ NameOf(Rest[i]) \in DOMAIN kwargs
                     /\ \/ \E j \in (i+1)..(tokIdx-1) :
                              HasEq(Rest[j]) /\ NameOf(Rest[j]) = NameOf(Rest[i])
                        \/ kwargs[NameOf(Rest[i])]
                             = Coerce(UFUNC[NameOf(Rest[i])], AfterFirstEq(Rest[i])).val)

\* C3: `help X` with X not a command of the schema exits with E_NOTFOUND
C3_HelpUnknownIsNotFound ==
    ( /\ aliased /\ pc = "branch" /\ outcome # "running" /\ ~config.exception
      /\ Len(argv) = 3 /\ argv[2] = T_help
      /\ argv[3] \notin DOMAIN functions )
    => (outcome = "exit" /\ exitcode = E_NOTFOUND)

\* C5: a command the library has and the schema does not is reported as not
\* found: main (raise mode off) exits with E_NOTFOUND, nothing is coerced and
\* the callable is not invoked
C5_SchemaMissingIsNotFound ==
    ( /\ pc = "bind" /\ outcome # "running" /\ ~config.exception
      /\ Resolves(argv[2]) /\ argv[2] \notin DOMAIN functions )
    => /\ outcome = "exit" /\ exitcode = E_NOTFOUND
       /\ args = <<>> /\ kwargs = <<>> /\ calls = <<>>

\* main is in makedocs(), the documentation tool the flag loop can run
InMakedocs == pc = "flags" /\ Len(argv) > 1 /\ argv[2] = T_makedocs

\* C6: with raise mode off no exception leaves main, and every failure was
\* reported through error() with the code the process exits with
C6_NoUncaughtException ==
    (~config.exception /\ ~InMakedocs) =>
        /\ outcome # "raised"
        /\ (outcome = "exit" /\ exitcode \notin {E_OK, E_NOARGS})
           => (errors = <<exitcode>>
               /\ exitcode \in {E_FAILED, E_NOTFOUND, E_INVALID})

\* C7: in quiet mode nothing is written to standard error
C7_QuietIsSilent == config.quiet => stderr = <<>>

\* C8: the keyword argument of a token is coerced from the whole text after the
\* first '=' of the token
C8_SplitOnceAtFirstEq ==
    FixedDispatch =>
        \A i \in 1..(tokIdx - 1) :
            ( /\ HasEq(Rest[i])
              /\ ~\E j \in (i+1)..(tokIdx-1) :
                    HasEq(Rest[j]) /\ NameOf(Rest[j]) = NameOf(Rest[i]) )
            => /\ NameOf(Rest[i]) \in DOMAIN kwargs
               /\ kwargs[NameOf(Rest[i])]
                    = Keyword(Function, NameOf(Rest[i]), AfterFirstEq(Rest[i])).val

\* the plain tokens number more than the slots once token j is counted
Overflow(j) ==
    ~HasEq(Rest[j]) /\ Cardinality(PlainAmong(j)) > Len(Positionals)

\* every coerced positional argument that came from a token is the coercion of
\* the token without '=' of the same rank by the coercer of the same rank, and
\* main never passes a token that overflows the slots
PositionalsInOrder ==
    /\ \A i \in 1..Len(args) :
          i <= Cardinality(PlainAmong(Len(Rest)))
          => args[i] = Coerce(Positionals[i], PlainToken(i)).val
    /\ \A j \in 1..Len(Rest) : Overflow(j) => (tokIdx <= j /\ calls = <<>>)

\* main stopped at a token that overflows the slots
StoppedAtOverflow ==
    /\ pc = "tokens" /\ tokIdx <= Len(Rest) /\ outcome # "running"
    /\ Overflow(tokIdx)

\* C9 as stated: the i-th token without '=' is coerced with the i-th positional
\* coercer, and a token without '=' beyond the declared slots makes main fail
\* with E_INVALID without invoking the callable
C9_OverflowExitsInvalid ==
    FixedDispatch =>
        /\ PositionalsInOrder
        /\ StoppedAtOverflow => (outcome = "exit" /\ exitcode = E_INVALID)

\* C9 amended: the i-th token without '=' is coerced with the i-th positional
\* coercer, and a token without '=' beyond the declared slots is reported to
\* error() with E_INVALID without invoking the callable: main exits with
\* E_INVALID in raise mode off and leaves with the exception in raise mode on
C9_OverflowReportedInvalid ==
    FixedDispatch =>
        /\ PositionalsInOrder
        /\ StoppedAtOverflow =>
              /\ errors = <<E_INVALID>>
              /\ IF config.exception THEN outcome = "raised"
                 ELSE outcome = "exit" /\ exitcode = E_INVALID

\* a keyword token stands between a coerced positional token and the token
\* that overflows the one slot of the command
C9_Witness ==
    /\ FixedDispatch /\ StoppedAtOverflow
    /\ Len(args) = 1 /\ DOMAIN kwargs # {}
    /\ tokIdx = 3

\* standard input is read only when piped, the k-th text read is coerced by the
\* coercer of the k-th slot the tokens left empty and appended there, and the
\* call is reached with every slot filled
StdinFillsMissing ==
    LET given == Cardinality(PlainAmong(Len(Rest)))
    IN  /\ stdinReads # <<>> => stdinTty = "pipe"
        /\ \A k \in 1..Len(stdinReads) :
              /\ given + k <= Len(Positionals)
              /\ given + k <= Len(args)
                 => args[given + k]
                      = Coerce(Positionals[given + k], stdinReads[k]).val
        /\ pc \in {"call", "output", "done"}
           => /\ Len(args) = Len(Positionals)
              /\ Len(stdinReads) = Len(Positionals) - given
        /\ stdinTty = "tty"
           => /\ pc = "stdin" /\ outcome # "running"
              /\ Len(args) < Len(Positionals)
              /\ stdinReads = <<>> /\ calls = <<>>

\* C4 as stated: positional slots the tokens left empty are filled from piped
\* standard input by the coercer of the slot; on a terminal main fails with
\* E_INVALID and standard input is never read
C4_TerminalExitsInvalid ==
    FixedDispatch =>
        /\ StdinFillsMissing
        /\ stdinTty = "tty" => (outcome = "exit" /\ exitcode = E_INVALID)

\* C4 amended: positional slots the tokens left empty are filled from piped
\* standard input by the coercer of the slot; on a terminal the missing
\* argument is reported to error() with E_INVALID and standard input is never
\* read: main exits with E_INVALID in raise mode off and leaves with the
\* exception in raise mode on
C4_TerminalReportedInvalid ==
    FixedDispatch =>
        /\ StdinFillsMissing
        /\ stdinTty = "tty" =>
              /\ errors = <<E_INVALID>>
              /\ IF config.exception THEN outcome = "raised"
                 ELSE outcome = "exit" /\ exitcode = E_INVALID

\* the second slot of savetxt was filled with the matrix piped in
C4_Witness ==
    /\ FixedDispatch /\ pc = "call"
    /\ argv[2] = T_savetxt
    /\ Len(Rest) = 1 /\ Len(stdinReads) = 1
    /\ args[2] = Value("matrix", <<>>, <<<<1, 2>>, <<3, 4>>>>)

\* the leading run of flag tokens of the list main was given
RECURSIVE RunLength(_)
RunLength(tokens) ==
    IF Len(tokens) > 0 /\ tokens[1] \in Toggles THEN 1 + RunLength(Tail(tokens)) ELSE 0
LeadingRun == SubSeq(argv0, 2, 1 + RunLength(Tail(argv0)))
AfterRun == SubSeq(argv0, 2 + RunLength(Tail(argv0)), Len(argv0))

Occurrences(spellings) ==
    Cardinality({i \in 1..Len(LeadingRun) : LeadingRun[i] \in spellings})
Odd(n) == n % 2 = 1

\* the configuration the leading run determines
RunConfig ==
    [warning |-> (DefaultConfig.warning # Odd(Occurrences({T_w, T_warning}))),
     quiet |-> (DefaultConfig.quiet # Odd(Occurrences({T_q, T_quiet}))),
     debug |-> (DefaultConfig.debug # Odd(Occurrences({T_d, T_debug}))),
     exception |-> (DefaultConfig.exception # Odd(Occurrences({T_e, T_exception}))),
     newline |-> IF Occurrences({T_f, T_flatten}) > 0 THEN ";" ELSE "\n",
     format |-> DefaultConfig.format]

\* the list without the leading run; -h and -v in command position are spelled
\* help and version
RunArgv ==
    <<argv0[1]>> \o
    ( IF AfterRun = <<>> THEN <<>>
      ELSE IF AfterRun[1] \in {T_h, T_helpopt} THEN <<T_help>> \o Tail(AfterRun)
      ELSE IF AfterRun[1] \in {T_v, T_versionopt} THEN <<T_version>> \o Tail(AfterRun)
      ELSE AfterRun )

\* C10: once the flag loop is over the configuration is the one the maximal
\* leading run of flag tokens determines (defaults XOR parity, newline ';' iff
\* -f occurs), exactly the run is removed from argv, and nothing after the
\* loop changes the configuration
C10_LeadingRunDecidesConfig ==
    (pc # "flags" \/ outcome # "running") =>
        /\ config = RunConfig
        /\ argv = RunArgv

\* main ended after a run that holds -q twice and -f, with another -q after
\* the command
C10_Witness ==
    /\ pc # "flags" /\ outcome # "running"
    /\ Occurrences({T_q, T_quiet}) = 2
    /\ \E i \in 1..Len(Rest) : Rest[i] \in Toggles
    /\ ~config.quiet

\* every token after the command was coerced without failure: the loop is past
\* the last token, every token without '=' had a slot whose coercer takes it and
\* every token with '=' a keyword coercer that takes its text
TokensCoerced ==
    /\ tokIdx > Len(Rest)
    /\ \A i \in 1..Len(Rest) :
          IF HasEq(Rest[i])
          THEN Keyword(Function, KeyOf(Rest[i]), TextOf(Rest[i])).ok
          ELSE /\ Cardinality(PlainAmong(i)) <= Len(Positionals)
               /\ Coerce(Positionals[Cardinality(PlainAmong(i))], Rest[i]).ok

\* the library callable is invoked at most once; for a fixed-arity command the
\* counter pos is len(args) throughout and the invocation happened with every
\* token coerced and as many positional arguments as the schema declares
CalledOnceWhenBound ==
    /\ Len(calls) <= 1
    /\ FixedDispatch =>
          /\ pos = Len(args)
          /\ calls # <<>> =>
                /\ TokensCoerced
                /\ Len(args) = Len(Positionals)
                /\ calls = <<[args |-> args, kwargs |-> kwargs]>>

\* output() was given the result of the one call, which returned
FormattedResult ==
    /\ pc \in {"output", "done"}
    /\ Len(calls) = 1
    /\ formatted = <<result>>

\* output() was given the documentation of a command by `help COMMAND`, with no
\* call of the library
FormattedDoc ==
    /\ pc = "branch" /\ outcome # "running"
    /\ Len(argv) = 3 /\ argv[2] = T_help /\ argv[3] \in DOMAIN functions
    /\ calls = <<>>
    /\ formatted = <<RStr>>

\* C11 as stated: the library callable is invoked at most once, for a
\* fixed-arity command only with every token coerced and len(args) the number
\* of declared positionals (pos = len(args) throughout), and output() runs only
\* after that call has returned without failure
C11_OutputOnlyAfterCall ==
    /\ CalledOnceWhenBound
    /\ formatted # <<>> => FormattedResult

\* C11 amended: the library callable is invoked at most once, for a
\* fixed-arity command only with every token coerced and len(args) the number
\* of declared positionals (pos = len(args) throughout), and output() is given
\* a result only after the call has returned it; the one other run of output()
\* is by `help COMMAND`, on the documentation of the command, with no call
C11_ResultOutputOnlyAfterCall ==
    /\ CalledOnceWhenBound
    /\ formatted # <<>> => (FormattedResult \/ FormattedDoc)

\* savetxt was called once with a token, a keyword and the text piped in, and
\* the tuple it returned was given to output()
C11_Witness ==
    /\ FixedDispatch /\ pc = "done"
    /\ argv[2] = T_savetxt
    /\ Len(args) = 2 /\ DOMAIN kwargs # {} /\ Len(stdinReads) = 1
    /\ Len(calls) = 1
    /\ result.kind = "tuple" /\ formatted = <<result>>

\* main has taken one of its branches: it ended in the branch or went on to the
\* dispatch
BranchTaken == (pc = "branch" /\ outcome # "running") \/ pc \notin {"flags", "branch"}

\* the ends of the branches as the list main was given decides them: usage with
\* E_NOARGS when no command is left, the help branch, the version line with
\* E_OK, and the dispatch of any other command the library has
UsageByArgv ==
    (pc = "branch" /\ outcome = "exit" /\ exitcode = E_NOARGS) <=> Len(argv) < 2
HelpByArgv ==
    (Len(argv) >= 2 /\ argv[2] = T_help) =>
        /\ pc = "branch"
        /\ Len(argv) > 3 => errors = <<E_INVALID>>
        /\ (Len(argv) <= 3 /\ outcome = "exit") => exitcode = E_OK
VersionByArgv ==
    (Len(argv) >= 2 /\ argv[2] = T_version) =>
        /\ pc = "branch" /\ outcome = "exit" /\ exitcode = E_OK
        /\ stdout = <<<<"version">>>>
DispatchByArgv ==
    (Len(argv) >= 2 /\ argv[2] \notin {T_help, T_version}) =>
        IF Resolves(argv[2]) THEN pc # "branch"
        ELSE /\ pc = "branch"
             /\ IF config.exception THEN outcome = "raised"
                ELSE outcome = "exit" /\ exitcode = E_NOTFOUND

\* C12: the branch main takes among usage, help, version and dispatch, and the
\* exit code, are decided by the list main was given, whatever sys.argv holds
C12_BranchDecidedByArgv ==
    BranchTaken => (UsageByArgv /\ HelpByArgv /\ VersionByArgv /\ DispatchByArgv)

\* the same holds of the runs where main was given sys.argv itself
BranchDecidedWhenAliased == aliased => C12_BranchDecidedByArgv

====
